---- MODULE Spec2Model ----
(***************************************************************************)
(* Model of the for-the-kudos backend (backend/main.py, backend/models.py).*)
(*                                                                         *)
(* One browser session talks to the FastAPI handlers.  The session is the  *)
(* Starlette session dictionary, the store is the athlete_stats table, the *)
(* upstream fitness API is the environment: every upstream answer is an    *)
(* input of the handler that asks for it.                                  *)
(*                                                                         *)
(* Time is counted in minutes.  average_kudos is a float with one decimal  *)
(* in the program; the model keeps it as an integer number of tenths.      *)
(***************************************************************************)
EXTENDS Integers, Sequences, FiniteSets, TLC

VARIABLES IS_PREVIEW, now, session, store, resp, calls, req

vars == <<IS_PREVIEW, now, session, store, resp, calls, req>>

(***************************************************************************)
(* Bounds of the exploration.                                              *)
(***************************************************************************)
MaxAthletes == 2
MaxNow == 360
TickStep == 180
TokenLifetime == 180
MaxSerial == 2
MaxVersion == 2
MaxKudos == 1
MaxActs == 2
MaxPageLen == 2
MaxProcs == 2
MaxLimit == 2

(***************************************************************************)
(* Program constants.                                                      *)
(***************************************************************************)
SESSION_TTL == 10
FRESH_HOURS == 6

None == "None"

Athletes == 1..MaxAthletes
Serials == 1..MaxSerial
Versions == 1..MaxVersion
Nonces == {"n1", "n2"}
Codes == {"code"}
Procs == 1..MaxProcs

(***************************************************************************)
(* Python dictionaries are functions with a finite domain of keys.         *)
(***************************************************************************)
EmptyDict == [k \in {} |-> None]

Has(d, k) == k \in DOMAIN d

Put(d, k, v) == [x \in (DOMAIN d) \cup {k} |-> IF x = k THEN v ELSE d[x]]

\* dict.get(k) for keys whose values are strings: None when the key is absent
GetStr(d, k) == IF Has(d, k) THEN d[k] ELSE None

(***************************************************************************)
(* The upstream token endpoint.  An access token is <<athlete, serial>>;   *)
(* a grant carries the token, a refresh token and the expiry time.         *)
(***************************************************************************)
AccessTokens == Athletes \X Serials

Grant(a, t) ==
    [access_token |-> a, refresh_token |-> <<"r", a[1], a[2]>>, expires_at |-> t + TokenLifetime]

ErrorPayload == [message |-> "Bad Request"]

\* answers of POST /oauth/token with grant_type=authorization_code
TokenResponses(env, t) ==
    {Grant(<<a, n>>, t) : a \in Athletes, n \in env.serials} \cup {ErrorPayload}

\* answers of POST /oauth/token with grant_type=refresh_token: a new grant
\* for the athlete the refresh token belongs to, or an error payload
RefreshResponses(env, refresh, t) ==
    {Grant(<<refresh[2], n>>, t) : n \in env.serials} \cup {ErrorPayload}

(***************************************************************************)
(* The upstream API.                                                       *)
(***************************************************************************)
\* the profile of athlete a as the upstream reports it; an athlete may edit
\* the name and the picture, v tells the editions apart
Profile(a, v) ==
    [id |-> a, firstname |-> <<"first", v>>, lastname |-> <<"last", v>>,
     profile |-> <<"url", v>>]

\* answers of GET /athlete for a token
AthleteResponses(env, token) ==
    {[status |-> 429], [status |-> 200, data |-> ErrorPayload]}
        \cup {[status |-> 200, data |-> Profile(token[1], v)] : v \in env.versions}

\* an activity of the list endpoint; kudos_count may be missing
NoKudos == -1

KudosOptions == (0..MaxKudos) \cup {NoKudos}

Activity(i, k) == IF k = NoKudos THEN [id |-> i] ELSE [id |-> i, kudos_count |-> k]

\* an athlete's activity history, most recent first; ids are unique
HistoriesOf(K) ==
    UNION { {[i \in 1..n |-> Activity(i, ks[i])] : ks \in [1..n -> K]} : n \in 0..MaxActs }

Histories == HistoriesOf(KudosOptions)

Min(a, b) == IF a < b THEN a ELSE b

NumPages(h, ps) == (Len(h) + ps - 1) \div ps

\* the history cut into pages of ps activities
Chunk(h, ps) ==
    [j \in 1..NumPages(h, ps) |->
        [status |-> 200, list |-> SubSeq(h, (j - 1) * ps + 1, Min(j * ps, Len(h)))]]

\* what the upstream answers instead of a page when it fails
FaultPages ==
    { [status |-> 429],
      [status |-> 200, dict |-> [message |-> "Rate Limit Exceeded"]],
      [status |-> 200, dict |-> [errors |-> "x"]] }

\* page f of up replaced by fp (f = Len(up) + 1: fp follows the last page)
WithFault(up, f, fp) == [j \in 1..(IF f > Len(up) THEN f ELSE Len(up)) |-> IF j = f THEN fp ELSE up[j]]

\* answers of GET /athlete/activities, page by page; past the last page the
\* upstream answers an empty list
UpstreamPages ==
    LET Clean == {Chunk(h, ps) : h \in Histories, ps \in 1..MaxPageLen}
    IN  Clean \cup UNION {{WithFault(up, f, fp) : f \in 1..(Len(up) + 1), fp \in FaultPages} : up \in Clean}

PageOf(up, page) == IF page <= Len(up) THEN up[page] ELSE [status |-> 200, list |-> <<>>]

\* answers of GET /activities/{id}
DetailResponses ==
    {[status |-> 429], [status |-> 200, data |-> ErrorPayload]}
        \cup {[status |-> 200, data |-> [name |-> "Ride", kudos_count |-> k]] : k \in 0..MaxKudos}


(***************************************************************************)
(* Upstream calls made by a request, in order.  An API call records the    *)
(* token it carried and the refresh data the session held when it was made.*)
(***************************************************************************)
ApiCall(ep, token, s, t) ==
    [ep |-> ep, token |-> token, at |-> t,
     holds_refresh |-> Has(s, "refresh_token"),
     stored_expires_at |-> IF Has(s, "expires_at") THEN s.expires_at ELSE 0]

\* GET /athlete, with the answer it got
AthleteCall(token, s, t, response) ==
    [ep |-> "athlete", token |-> token, at |-> t,
     holds_refresh |-> Has(s, "refresh_token"),
     stored_expires_at |-> IF Has(s, "expires_at") THEN s.expires_at ELSE 0,
     answer |-> response]

TokenCall(grant, t) == [ep |-> "token", grant_type |-> grant, at |-> t]

(***************************************************************************)
(* OAuth functions                                                         *)
(***************************************************************************)
StoreTokens(s, tr) ==
    Put(Put(Put(s, "access_token", tr.access_token),
                   "refresh_token", tr.refresh_token),
                   "expires_at", tr.expires_at)

\* "Token expired?"
token_expired(t, expires_at) == t > expires_at

\* new is the answer of refresh_token(refresh); it is read only when the
\* token is found expired.  new["access_token"] raises KeyError on an error
\* payload, before any session field is written.
ensure_valid_token(s, t, new) ==
    IF ~Has(s, "access_token")
    THEN [kind |-> "HTTPException", status |-> 401, session |-> s, calls |-> <<>>]
    ELSE IF ~Has(s, "refresh_token") \/ ~Has(s, "expires_at") \/ s.expires_at = 0
    THEN [kind |-> "ok", token |-> s.access_token, session |-> s, calls |-> <<>>]
    ELSE IF token_expired(t, s.expires_at)
    THEN IF ~Has(new, "access_token")
         THEN [kind |-> "KeyError", status |-> 500, session |-> s,
               calls |-> <<TokenCall("refresh_token", t)>>]
         ELSE [kind |-> "ok", token |-> new.access_token, session |-> StoreTokens(s, new),
               calls |-> <<TokenCall("refresh_token", t)>>]
    ELSE [kind |-> "ok", token |-> s.access_token, session |-> s, calls |-> <<>>]

(***************************************************************************)
(* Helper functions                                                        *)
(***************************************************************************)
get_athlete(response) ==
    IF response.status = 429
    THEN [kind |-> "HTTPException", status |-> 503]
    ELSE IF ~Has(response.data, "id")
    THEN [kind |-> "HTTPException", status |-> 401]
    ELSE [kind |-> "ok", data |-> response.data]

\* activities.extend(data) on a dict appends its keys
Items(response) ==
    IF Has(response, "list") THEN response.list ELSE <<[key |-> "errors"]>>

StopsAt(response) ==
    \/ Has(response, "list") /\ response.list = <<>>
    \/ Has(response, "dict") /\ Has(response.dict, "message")

RECURSIVE get_activities_from(_, _, _)
get_activities_from(up, page, activities) ==
    LET response == PageOf(up, page)
    IN  IF response.status = 429
        THEN [kind |-> "HTTPException", status |-> 503, pages |-> page]
        ELSE IF StopsAt(response)
        THEN [kind |-> "ok", activities |-> activities, pages |-> page]
        ELSE get_activities_from(up, page + 1, activities \o Items(response))

get_activities(up) == get_activities_from(up, 1, <<>>)

get_activity_detail(response) ==
    IF response.status = 429
    THEN [kind |-> "HTTPException", status |-> 503]
    ELSE [kind |-> "ok", data |-> response.data]

(***************************************************************************)
(* Database functions.  A row of athlete_stats; the columns the program    *)
(* never writes (total_distance_km, ...) stay NULL and are left out.       *)
(***************************************************************************)
FreshWindow == FRESH_HOURS * 60

\* a record of exactly 6 hours taken for fresh
is_fresh_inclusive(t, last_updated) == t - last_updated <= FreshWindow

is_fresh(t, last_updated) == t - last_updated < FreshWindow

get_cached_athlete_stats(db, athlete_id, t) ==
    IF ~Has(db, athlete_id)
    THEN EmptyDict
    ELSE IF is_fresh(t, db[athlete_id].last_updated)
    THEN [total_activities |-> db[athlete_id].total_activities,
          total_kudos |-> db[athlete_id].total_kudos,
          average_kudos |-> db[athlete_id].average_kudos]
    ELSE EmptyDict

\* the name of a stored record left as it is
upsert_record_keep_name(db, athlete, stats, t) ==
    [is_new |-> ~Has(db, athlete.id),
     row |-> [athlete_id |-> athlete.id,
              firstname |-> IF Has(db, athlete.id) THEN db[athlete.id].firstname
                            ELSE athlete.firstname,
              lastname |-> athlete.lastname,
              profile |-> athlete.profile,
              total_kudos |-> stats.total_kudos,
              total_activities |-> stats.total_activities,
              average_kudos |-> stats.average_kudos,
              last_updated |-> t]]

\* db.get and the assignments of upsert_athlete: the row to write, and
\* whether it is a new object (INSERT) or a loaded one (UPDATE)
upsert_record(db, athlete, stats, t) ==
    [is_new |-> ~Has(db, athlete.id),
     row |-> [athlete_id |-> athlete.id,
              firstname |-> athlete.firstname,
              lastname |-> athlete.lastname,
              profile |-> athlete.profile,
              total_kudos |-> stats.total_kudos,
              total_activities |-> stats.total_activities,
              average_kudos |-> stats.average_kudos,
              last_updated |-> t]]

\* db.add and db.commit: athlete_id is the primary key, an INSERT of a key
\* that is already stored fails
upsert_commit(db, rec) ==
    IF rec.is_new /\ Has(db, rec.row.athlete_id)
    THEN [kind |-> "IntegrityError", db |-> db]
    ELSE [kind |-> "ok", db |-> Put(db, rec.row.athlete_id, rec.row)]

upsert_athlete(db, athlete, stats, t) ==
    upsert_commit(db, upsert_record(db, athlete, stats, t)).db

(***************************************************************************)
(* Statistics of /api/stats/summary                                        *)
(***************************************************************************)
Kudos(a) == IF Has(a, "kudos_count") THEN a.kudos_count ELSE 0

RECURSIVE SumKudos(_)
SumKudos(activities) ==
    IF activities = <<>> THEN 0
    ELSE Kudos(Head(activities)) + SumKudos(Tail(activities))

\* the last activity with the largest key
MaxByKudos_last(activities) ==
    LET i == CHOOSE i \in 1..Len(activities) :
                /\ \A j \in 1..Len(activities) : Kudos(activities[j]) <= Kudos(activities[i])
                /\ \A j \in (i + 1)..Len(activities) : Kudos(activities[j]) < Kudos(activities[i])
    IN  activities[i]

\* max(activities, key=...): the first activity with the largest key
MaxByKudos(activities) ==
    LET i == CHOOSE i \in 1..Len(activities) :
                /\ \A j \in 1..Len(activities) : Kudos(activities[j]) <= Kudos(activities[i])
                /\ \A j \in 1..(i - 1) : Kudos(activities[j]) < Kudos(activities[i])
    IN  activities[i]

\* round(total / n, 1) in tenths: round half to even.  A tie total/n = x.x5
\* has n a multiple of 4; for n < 20 the quotient is then x.25 or x.75, an
\* exact binary fraction, so the float is rounded as the exact value is.
Round1(total, n) ==
    LET q == (10 * total) \div n
        r == (10 * total) % n
    IN  IF 2 * r < n THEN q
        ELSE IF 2 * r > n THEN q + 1
        ELSE IF q % 2 = 0 THEN q ELSE q + 1

\* the average cut to a whole number (total_kudos // len(activities))
compute_stats_floor(activities) ==
    [total_activities |-> Len(activities),
     total_kudos |-> SumKudos(activities),
     average_kudos |-> 10 * (SumKudos(activities) \div Len(activities))]

compute_stats(activities) ==
    [total_activities |-> Len(activities),
     total_kudos |-> SumKudos(activities),
     average_kudos |-> Round1(SumKudos(activities), Len(activities))]


(***************************************************************************)
(* Environments: what the browser and the upstream may send.               *)
(*   nonces    values secrets.token_urlsafe produces and /callback carries *)
(*   serials   serial numbers of the access tokens the upstream grants     *)
(*   versions  editions of an athlete's profile                            *)
(*   pages     answers of the activity list endpoint                       *)
(***************************************************************************)
\* an upstream without activities, or refusing to list them
QuietPages ==
    { <<>>, <<[status |-> 429]>>, <<[status |-> 200, dict |-> [message |-> "Rate Limit Exceeded"]]>> }

\* every history in pages of MaxPageLen, or a rate limit on the first page
HistoryPages ==
    {Chunk(h, MaxPageLen) : h \in HistoriesOf(0..MaxKudos)} \cup {<<[status |-> 429]>>}

SessionEnv ==
    [nonces |-> Nonces, serials |-> Serials, versions |-> {1}, pages |-> QuietPages]

StoreEnv ==
    [nonces |-> {"n1"}, serials |-> {1}, versions |-> Versions, pages |-> HistoryPages]

\* histories of one activity
SinglePages == {Chunk(h, MaxPageLen) : h \in {x \in HistoriesOf(0..MaxKudos) : Len(x) = 1}}

RaceEnv ==
    [nonces |-> {"n1"}, serials |-> {1}, versions |-> {1}, pages |-> SinglePages]

IdleReq == [pc |-> "idle"]

NoResp == [op |-> "none", status |-> 0, kind |-> "none"]

\* the live deployment (RENDER_SERVICE_TYPE is not "preview"), a new browser
\* session, an empty table
Init ==
    /\ IS_PREVIEW = FALSE
    /\ now = 0
    /\ session = EmptyDict
    /\ store = EmptyDict
    /\ resp = NoResp
    /\ calls = <<>>
    /\ req = [p \in Procs |-> IdleReq]

(***************************************************************************)
(* The clock (datetime.utcnow) advances between requests.                  *)
(***************************************************************************)
Tick ==
    /\ now + TickStep <= MaxNow
    /\ now' = now + TickStep
    /\ UNCHANGED <<IS_PREVIEW, session, store, resp, calls, req>>

(***************************************************************************)
(* GET /login                                                              *)
(***************************************************************************)
Login(env) ==
    \E state \in env.nonces :
        /\ session' = Put(session, "oauth_state", state)
        /\ resp' = [op |-> "login", status |-> 307, kind |-> "redirect_authorize", state |-> state]
        /\ calls' = <<>>
        /\ UNCHANGED <<IS_PREVIEW, now, store, req>>

(***************************************************************************)
(* GET /callback?code&state                                                *)
(***************************************************************************)
\* the check skipped when the request carries no state
state_mismatch_if_given(state, s) == state # None /\ state # GetStr(s, "oauth_state")

\* "Validate state token": session.get gives None when no nonce is stored
state_mismatch(state, s) == state # GetStr(s, "oauth_state")

Callback(env) ==
    \E code \in Codes \cup {None}, state \in env.nonces \cup {None} :
        /\ UNCHANGED <<IS_PREVIEW, now, store, req>>
        /\ IF state_mismatch(state, session)
           THEN /\ resp' = [op |-> "callback", status |-> 400, kind |-> "InvalidState", state |-> state]
                /\ calls' = <<>>
                /\ UNCHANGED session
           ELSE IF code = None
           THEN /\ resp' = [op |-> "callback", status |-> 307, kind |-> "redirect_home", state |-> state]
                /\ calls' = <<>>
                /\ UNCHANGED session
           ELSE \E token_response \in TokenResponses(env, now) :
                /\ calls' = <<TokenCall("authorization_code", now)>>
                /\ IF ~Has(token_response, "access_token")
                   THEN /\ resp' = [op |-> "callback", status |-> 307, kind |-> "redirect_oauth_error", state |-> state]
                        /\ UNCHANGED session
                   ELSE /\ session' = StoreTokens(session, token_response)
                        /\ resp' = [op |-> "callback", status |-> 307, kind |-> "redirect_dashboard", state |-> state]

(***************************************************************************)
(* GET /api/athlete                                                        *)
(***************************************************************************)
ApiAthlete(env) ==
    /\ UNCHANGED <<IS_PREVIEW, now, store, req>>
    /\ IF ~Has(session, "access_token")
       THEN /\ resp' = [op |-> "api_athlete", status |-> 200, kind |-> "unauthorized"]
            /\ calls' = <<>>
            /\ UNCHANGED session
       ELSE IF Has(session, "athlete")
       THEN /\ resp' = [op |-> "api_athlete", status |-> 200, kind |-> "athlete",
                        body |-> session.athlete]
            /\ calls' = <<>>
            /\ UNCHANGED session
       ELSE \E response \in AthleteResponses(env, session.access_token) :
            LET athlete == get_athlete(response)
            IN  /\ calls' = <<AthleteCall(session.access_token, session, now, response)>>
                /\ IF athlete.kind = "ok"
                   THEN /\ session' = Put(session, "athlete", athlete.data)
                        /\ resp' = [op |-> "api_athlete", status |-> 200, kind |-> "athlete",
                                    body |-> athlete.data]
                   ELSE /\ resp' = [op |-> "api_athlete", status |-> athlete.status,
                                    kind |-> "HTTPException"]
                        /\ UNCHANGED session

(***************************************************************************)
(* GET /api/stats/summary                                                  *)
(***************************************************************************)
\* top_activity_id None; activity ids are positive
NoneId == 0

PreviewSummary ==
    [total_activities |-> 0, total_kudos |-> 0, average_kudos |-> 0, top_activity_id |-> NoneId]

WithTop(stats, id) ==
    [total_activities |-> stats.total_activities,
     total_kudos |-> stats.total_kudos,
     average_kudos |-> stats.average_kudos,
     top_activity_id |-> id]

\* GET /athlete/activities for the pages 1..pages, with the answers of up
ActivityCalls(token, s, t, up, pages) ==
    [i \in 1..pages |-> [ep |-> "activities", token |-> token, at |-> t, page |-> i,
                         holds_refresh |-> Has(s, "refresh_token"),
                         stored_expires_at |-> IF Has(s, "expires_at") THEN s.expires_at ELSE 0,
                         answer |-> PageOf(up, i)]]

\* an empty history taken for a failed login
summary_compute_relogin(s0, tk, athlete, c1, t, up) ==
    LET ga == get_activities(up)
        c2 == c1 \o ActivityCalls(tk.token, tk.session, t, up, ga.pages)
    IN  IF ga.kind # "ok"
        THEN [kind |-> "HTTPException", status |-> 503, detail |-> "RateLimited",
              session |-> tk.session, calls |-> c2]
        ELSE IF ga.activities = <<>>
        THEN [kind |-> "HTTPException", status |-> 401, detail |-> "Unauthorized",
              session |-> tk.session, calls |-> c2]
        ELSE IF \E i \in 1..Len(ga.activities) : Has(ga.activities[i], "key")
        THEN [kind |-> "AttributeError", status |-> 500, session |-> s0, calls |-> c2]
        ELSE [kind |-> "computed", status |-> 200, session |-> tk.session, calls |-> c2,
              athlete |-> athlete,
              stats |-> compute_stats(ga.activities),
              top_activity_id |-> MaxByKudos(ga.activities).id]

\* lines 313-327 of stats_summary, after the stored record was found missing
\* or stale.  An exception that is no HTTPException is answered outside the
\* session middleware: the session cookie stays as it was (s0).
summary_compute(s0, tk, athlete, c1, t, up) ==
    LET ga == get_activities(up)
        c2 == c1 \o ActivityCalls(tk.token, tk.session, t, up, ga.pages)
    IN  IF ga.kind # "ok"
        THEN [kind |-> "HTTPException", status |-> 503, detail |-> "RateLimited",
              session |-> tk.session, calls |-> c2]
        ELSE IF ga.activities = <<>>
        THEN [kind |-> "HTTPException", status |-> 503, detail |-> "NoActivities",
              session |-> tk.session, calls |-> c2]
        ELSE IF \E i \in 1..Len(ga.activities) : Has(ga.activities[i], "key")
        THEN [kind |-> "AttributeError", status |-> 500, session |-> s0, calls |-> c2]
        ELSE [kind |-> "computed", status |-> 200, session |-> tk.session, calls |-> c2,
              athlete |-> athlete,
              stats |-> compute_stats(ga.activities),
              top_activity_id |-> MaxByKudos(ga.activities).id]

\* lines 281-311 of stats_summary, then summary_compute
summary_fetch(preview, s, db, t, new, response, up) ==
    IF preview
    THEN [kind |-> "preview", status |-> 200, session |-> s, calls |-> <<>>,
          body |-> PreviewSummary]
    ELSE IF ~Has(s, "access_token")
    THEN [kind |-> "unauthorized", status |-> 200, session |-> s, calls |-> <<>>]
    ELSE LET tk == ensure_valid_token(s, t, new)
         IN  IF tk.kind # "ok"
             THEN [kind |-> tk.kind, status |-> tk.status, session |-> tk.session,
                   calls |-> tk.calls]
             ELSE LET athlete == get_athlete(response)
                      c1 == tk.calls \o <<AthleteCall(tk.token, tk.session, t, response)>>
                  IN  IF athlete.kind # "ok"
                      THEN [kind |-> "HTTPException", status |-> athlete.status,
                            detail |-> "athlete", session |-> tk.session, calls |-> c1]
                      ELSE LET cached == get_cached_athlete_stats(db, athlete.data.id, t)
                           IN  IF cached # EmptyDict
                               THEN [kind |-> "cached", status |-> 200,
                                     session |-> tk.session, calls |-> c1,
                                     body |-> WithTop(cached, NoneId)]
                               ELSE summary_compute(s, tk, athlete.data, c1, t, up)

\* The answers the upstream gives to one request.  An answer is drawn only
\* for a call the request can make.
RefreshInputs(env, s, t) ==
    IF Has(s, "access_token") /\ Has(s, "refresh_token") /\ Has(s, "expires_at")
    THEN RefreshResponses(env, s.refresh_token, t)
    ELSE {ErrorPayload}

AthleteInputs(env, preview, s, t, new) ==
    IF ~preview /\ Has(s, "access_token") /\ ensure_valid_token(s, t, new).kind = "ok"
    THEN AthleteResponses(env, ensure_valid_token(s, t, new).token)
    ELSE {[status |-> 429]}

PagesInputs(env, preview, s, db, t, new, response) ==
    IF /\ ~preview /\ Has(s, "access_token") /\ ensure_valid_token(s, t, new).kind = "ok"
       /\ get_athlete(response).kind = "ok"
       /\ get_cached_athlete_stats(db, get_athlete(response).data.id, t) = EmptyDict
    THEN env.pages
    ELSE {<<>>}

SummaryResponse(r) ==
    IF r.kind \in {"preview", "cached"}
    THEN [op |-> "stats_summary", status |-> r.status, kind |-> r.kind, body |-> r.body]
    ELSE IF r.kind = "computed"
    THEN [op |-> "stats_summary", status |-> r.status, kind |-> r.kind,
          body |-> WithTop(r.stats, r.top_activity_id)]
    ELSE IF r.kind = "HTTPException" /\ Has(r, "detail")
    THEN [op |-> "stats_summary", status |-> r.status, kind |-> r.kind, detail |-> r.detail]
    ELSE [op |-> "stats_summary", status |-> r.status, kind |-> r.kind]

\* "SAVE TO DATABASE" guard
saves(stats) == stats.total_kudos > 0 \/ stats.total_activities > 0

\* a hit on the stored record renews its last_updated
StatsSummary_touch(env) ==
    \E new \in RefreshInputs(env, session, now) :
    \E response \in AthleteInputs(env, IS_PREVIEW, session, now, new) :
    \E up \in PagesInputs(env, IS_PREVIEW, session, store, now, new, response) :
    \E r \in {summary_fetch(IS_PREVIEW, session, store, now, new, response, up)} :
            /\ session' = r.session
            /\ calls' = r.calls
            /\ resp' = SummaryResponse(r)
            /\ IF r.kind = "computed" /\ saves(r.stats)
               THEN store' = upsert_athlete(store, r.athlete, r.stats, now)
               ELSE IF r.kind = "cached"
               THEN store' = [store EXCEPT ![get_athlete(response).data.id].last_updated = now]
               ELSE UNCHANGED store
            /\ UNCHANGED <<IS_PREVIEW, now, req>>

\* the request handled in one piece
StatsSummary(env) ==
    \E new \in RefreshInputs(env, session, now) :
    \E response \in AthleteInputs(env, IS_PREVIEW, session, now, new) :
    \E up \in PagesInputs(env, IS_PREVIEW, session, store, now, new, response) :
    \E r \in {summary_fetch(IS_PREVIEW, session, store, now, new, response, up)} :
            /\ session' = r.session
            /\ calls' = r.calls
            /\ resp' = SummaryResponse(r)
            /\ IF r.kind = "computed" /\ saves(r.stats)
               THEN store' = upsert_athlete(store, r.athlete, r.stats, now)
               ELSE UNCHANGED store
            /\ UNCHANGED <<IS_PREVIEW, now, req>>

(***************************************************************************)
(* GET /api/stats/top-activity?id=                                         *)
(***************************************************************************)
TopActivity ==
    \E activity_id \in {None, "1"} :
        /\ UNCHANGED <<IS_PREVIEW, now, session, store, req>>
        /\ IF IS_PREVIEW
           THEN /\ resp' = [op |-> "top_activity", status |-> 200, kind |-> "preview"]
                /\ calls' = <<>>
           ELSE IF ~Has(session, "access_token") \/ activity_id = None
           THEN /\ resp' = [op |-> "top_activity", status |-> 200, kind |-> "bad_request"]
                /\ calls' = <<>>
           ELSE \E response \in DetailResponses :
                LET activity == get_activity_detail(response)
                IN  /\ calls' = <<ApiCall("activity_detail", session.access_token, session, now)>>
                    /\ IF activity.kind = "ok"
                       THEN resp' = [op |-> "top_activity", status |-> 200, kind |-> "activity",
                                     kudos |-> Kudos(activity.data)]
                       ELSE resp' = [op |-> "top_activity", status |-> activity.status,
                                     kind |-> "HTTPException"]

(***************************************************************************)
(* GET / and GET /dashboard                                                *)
(***************************************************************************)
Home ==
    /\ resp' = [op |-> "home", status |-> 200, kind |-> "page",
                logged_in |-> IF IS_PREVIEW THEN TRUE ELSE Has(session, "access_token")]
    /\ calls' = <<>>
    /\ UNCHANGED <<IS_PREVIEW, now, session, store, req>>

Dashboard ==
    /\ resp' = [op |-> "dashboard", status |-> 307, kind |-> "redirect_home"]
    /\ calls' = <<>>
    /\ UNCHANGED <<IS_PREVIEW, now, session, store, req>>

(***************************************************************************)
(* GET /api/leaderboard?sort&limit                                         *)
(***************************************************************************)
\* limit when the request gives none
DefaultLimit == 20

\* the number of canned users of a preview deployment
PreviewUsers == 5

\* the sort parameter: the three columns and a value that names none
Sorts == {"total_kudos", "average_kudos", "total_activities", "name"}

\* the limit parameter: any integer
Limits == (-1..MaxLimit) \cup {DefaultLimit}

PreviewLeaderboard ==
    [i \in 1..PreviewUsers |->
        [athlete_id |-> i, name |-> <<"Preview User", i>>, profile |-> None,
         total_kudos |-> 0, average_kudos |-> 0, total_activities |-> 0]]

\* an unknown sort taken for total_activities
order_col_activities(sort, r) ==
    IF sort = "average_kudos" THEN r.average_kudos
    ELSE IF sort = "total_kudos" THEN r.total_kudos
    ELSE r.total_activities

\* valid_sorts.get(sort, AthleteStats.total_kudos), read from row r
order_col(sort, r) ==
    IF sort = "average_kudos" THEN r.average_kudos
    ELSE IF sort = "total_activities" THEN r.total_activities
    ELSE r.total_kudos

\* db.query(AthleteStats).order_by(order_col.desc()).all(): the ids of all
\* rows, largest value first; the database is free in the order of rows
\* with equal values
query_ordered(db, sort) ==
    { o \in [1..Cardinality(DOMAIN db) -> DOMAIN db] :
        /\ \A i, j \in DOMAIN o : i # j => o[i] # o[j]
        /\ \A i, j \in DOMAIN o : i < j => order_col(sort, db[o[i]]) >= order_col(sort, db[o[j]]) }

\* .limit(limit): the outcomes of the query.  The limit goes to the database
\* as it is; a negative one is refused by some engines (PostgreSQL, MySQL)
\* and means "no limit" to others (SQLite)
query_limit(o, limit) ==
    IF limit >= 0
    THEN {[kind |-> "ok", ids |-> SubSeq(o, 1, Min(limit, Len(o)))]}
    ELSE {[kind |-> "ok", ids |-> o], [kind |-> "DatabaseError"]}

board_entry(r) ==
    [athlete_id |-> r.athlete_id, name |-> <<r.firstname, r.lastname>>, profile |-> r.profile,
     total_kudos |-> r.total_kudos, average_kudos |-> r.average_kudos,
     total_activities |-> r.total_activities]

\* queried: the handler opened a database session and ran a query
Leaderboard ==
    \E sort \in Sorts, limit \in Limits :
        /\ calls' = <<>>
        /\ UNCHANGED <<IS_PREVIEW, now, session, store, req>>
        /\ IF IS_PREVIEW
           THEN resp' = [op |-> "leaderboard", status |-> 200, kind |-> "preview",
                         sort |-> sort, limit |-> limit, queried |-> FALSE,
                         rows |-> PreviewLeaderboard]
           ELSE \E o \in query_ordered(store, sort) :
                \E q \in query_limit(o, limit) :
                resp' = IF q.kind = "ok"
                        THEN [op |-> "leaderboard", status |-> 200, kind |-> "rows",
                              sort |-> sort, limit |-> limit, queried |-> TRUE,
                              rows |-> [i \in 1..Len(q.ids) |-> board_entry(store[q.ids[i]])]]
                        ELSE [op |-> "leaderboard", status |-> 500, kind |-> q.kind,
                              sort |-> sort, limit |-> limit, queried |-> TRUE]

(***************************************************************************)
(* GET /api/leaderboard/rank                                               *)
(***************************************************************************)
\* {"rank": None}; ranks are positive
NoRank == 0

\* "Find index": the position of the first row of the athlete, counted
\* from 1
rank_of(o, athlete_id) ==
    IF \E i \in DOMAIN o : o[i] = athlete_id
    THEN CHOOSE i \in DOMAIN o : o[i] = athlete_id /\ \A j \in 1..(i - 1) : o[j] # athlete_id
    ELSE NoRank

LeaderboardRank ==
    /\ calls' = <<>>
    /\ UNCHANGED <<IS_PREVIEW, now, session, store, req>>
    /\ IF ~Has(session, "access_token")
       THEN resp' = [op |-> "leaderboard_rank", status |-> 200, kind |-> "unauthorized",
                     queried |-> FALSE]
       ELSE IF ~Has(session, "athlete")
       THEN resp' = [op |-> "leaderboard_rank", status |-> 200, kind |-> "no_athlete",
                     queried |-> FALSE]
       ELSE \E o \in query_ordered(store, "total_kudos") :
            resp' = [op |-> "leaderboard_rank", status |-> 200, kind |-> "rank",
                     queried |-> TRUE, athlete_id |-> session.athlete.id,
                     rank |-> rank_of(o, session.athlete.id)]

(***************************************************************************)
(* Spec: the session and its tokens.  The handlers that read or write the  *)
(* tokens, with an upstream that lists no activities.                      *)
(***************************************************************************)
Next ==
    \/ Tick
    \/ Login(SessionEnv)
    \/ Callback(SessionEnv)
    \/ ApiAthlete(SessionEnv)
    \/ StatsSummary(SessionEnv)
    \/ TopActivity

Spec == Init /\ [][Next]_vars

(***************************************************************************)
(* SpecStore: the athlete_stats table.  Logins of every athlete and        *)
(* summaries over every activity history.                                  *)
(***************************************************************************)
NextStore ==
    \/ Tick
    \/ Callback(StoreEnv)
    \/ StatsSummary(StoreEnv)

\* the session after GET /login
InitStore ==
    /\ IS_PREVIEW = FALSE
    /\ now = 0
    /\ session = [oauth_state |-> "n1"]
    /\ store = EmptyDict
    /\ resp = [op |-> "login", status |-> 307, kind |-> "redirect_authorize", state |-> "n1"]
    /\ calls = <<>>
    /\ req = [p \in Procs |-> IdleReq]

SpecStore == InitStore /\ [][NextStore]_vars

(***************************************************************************)
(* SpecRace: /api/stats/summary requests served at the same time.  Each    *)
(* request p runs stats_summary up to the call of upsert_athlete, then     *)
(* db.get with the assignments, then db.add and db.commit, each in its own *)
(* database session; the steps of different requests interleave.           *)
(***************************************************************************)
SummaryBegin(p, env) ==
    /\ req[p].pc \in {"idle", "done"}
    /\ \E new \in RefreshInputs(env, session, now) :
       \E response \in AthleteInputs(env, IS_PREVIEW, session, now, new) :
       \E up \in PagesInputs(env, IS_PREVIEW, session, store, now, new, response) :
       \E r \in {summary_fetch(IS_PREVIEW, session, store, now, new, response, up)} :
            /\ session' = r.session
            /\ calls' = r.calls
            /\ IF r.kind = "computed" /\ saves(r.stats)
               THEN /\ req' = [req EXCEPT ![p] = [pc |-> "upsert", athlete |-> r.athlete,
                                                  stats |-> r.stats,
                                                  top_activity_id |-> r.top_activity_id]]
                    /\ UNCHANGED resp
               ELSE /\ req' = [req EXCEPT ![p] = [pc |-> "done", result |-> SummaryResponse(r)]]
                    /\ resp' = SummaryResponse(r)
    /\ UNCHANGED <<IS_PREVIEW, now, store>>

UpsertGet(p) ==
    /\ req[p].pc = "upsert"
    /\ req' = [req EXCEPT ![p] =
                  [pc |-> "commit", stats |-> req[p].stats,
                   top_activity_id |-> req[p].top_activity_id,
                   record |-> upsert_record(store, req[p].athlete, req[p].stats, now)]]
    /\ UNCHANGED <<IS_PREVIEW, now, session, store, resp, calls>>

UpsertCommit(p) ==
    /\ req[p].pc = "commit"
    /\ \E c \in {upsert_commit(store, req[p].record)} :
       \E result \in {IF c.kind = "ok"
                      THEN [op |-> "stats_summary", status |-> 200, kind |-> "computed",
                            body |-> WithTop(req[p].stats, req[p].top_activity_id)]
                      ELSE [op |-> "stats_summary", status |-> 500, kind |-> c.kind]} :
            /\ store' = c.db
            /\ req' = [req EXCEPT ![p] = [pc |-> "done", result |-> result,
                                          row |-> req[p].record.row]]
            /\ resp' = result
    /\ UNCHANGED <<IS_PREVIEW, now, session, calls>>

NextRace ==
    \/ Tick
    \/ \E p \in Procs : SummaryBegin(p, RaceEnv)
    \/ \E p \in Procs : UpsertGet(p)
    \/ \E p \in Procs : UpsertCommit(p)

\* the session after GET /login and a GET /callback that logged athlete 1 in
InitRace ==
    /\ IS_PREVIEW = FALSE
    /\ now = 0
    /\ session = StoreTokens([oauth_state |-> "n1"], Grant(<<1, 1>>, 0))
    /\ store = EmptyDict
    /\ resp = [op |-> "callback", status |-> 307, kind |-> "redirect_dashboard", state |-> "n1"]
    /\ calls = <<TokenCall("authorization_code", 0)>>
    /\ req = [p \in Procs |-> IdleReq]

SpecRace == InitRace /\ [][NextRace]_vars

(***************************************************************************)
(* SpecPages: get_activities on its own, called with the token of a        *)
(* logged-in session against every upstream of UpstreamPages.              *)
(***************************************************************************)
PagesEnv ==
    [nonces |-> {"n1"}, serials |-> {1}, versions |-> {1}, pages |-> UpstreamPages]

GetActivities(env) ==
    \E up \in env.pages :
    \E ga \in {get_activities(up)} :
        /\ calls' = ActivityCalls(session.access_token, session, now, up, ga.pages)
        /\ resp' = IF ga.kind = "ok"
                   THEN [op |-> "get_activities", status |-> 200, kind |-> "ok", up |-> up,
                         activities |-> ga.activities]
                   ELSE [op |-> "get_activities", status |-> ga.status, kind |-> ga.kind,
                         up |-> up]
        /\ UNCHANGED <<IS_PREVIEW, now, session, store, req>>

NextPages ==
    \/ Tick
    \/ GetActivities(PagesEnv)

SpecPages == InitRace /\ [][NextPages]_vars

(***************************************************************************)
(* SpecFetch: the summaries of one logged-in athlete against every         *)
(* upstream of UpstreamPages, failing pages included.                      *)
(***************************************************************************)
NextFetch ==
    \/ Tick
    \/ StatsSummary(PagesEnv)

SpecFetch == InitRace /\ [][NextFetch]_vars

(***************************************************************************)
(* SpecPreview: a preview deployment (RENDER_SERVICE_TYPE = "preview"),    *)
(* every handler.                                                          *)
(***************************************************************************)
InitPreview ==
    /\ IS_PREVIEW = TRUE
    /\ now = 0
    /\ session = EmptyDict
    /\ store = EmptyDict
    /\ resp = NoResp
    /\ calls = <<>>
    /\ req = [p \in Procs |-> IdleReq]

NextPreview ==
    \/ Home
    \/ Login(SessionEnv)
    \/ Callback(SessionEnv)
    \/ Dashboard
    \/ ApiAthlete(SessionEnv)
    \/ StatsSummary(SessionEnv)
    \/ TopActivity
    \/ Leaderboard
    \/ LeaderboardRank

SpecPreview == InitPreview /\ [][NextPreview]_vars

(***************************************************************************)
(* SpecBoard: the leaderboard.  Logins of every athlete, their summaries   *)
(* and profiles, and the two leaderboard endpoints; the clock stands still.*)
(***************************************************************************)
BoardEnv ==
    [nonces |-> {"n1"}, serials |-> {1}, versions |-> {1}, pages |-> HistoryPages]

NextBoard ==
    \/ Login(BoardEnv)
    \/ Callback(BoardEnv)
    \/ ApiAthlete(BoardEnv)
    \/ StatsSummary(BoardEnv)
    \/ Leaderboard
    \/ LeaderboardRank

SpecBoard == InitStore /\ [][NextBoard]_vars

(***************************************************************************)
(* Properties of the OAuth session (Spec)                                  *)
(***************************************************************************)
IsRefreshCall(c) == c.ep = "token" /\ c.grant_type = "refresh_token"

IsApiCall(c) == c.ep \in {"athlete", "activities", "activity_detail"}

\* C1: a /callback whose state differs from the nonce stored in the session
\* (None when none is stored) is answered 400, makes no upstream call and
\* leaves the session as it was.
C1_StateMismatchRejected ==
    [][(now' = now /\ resp'.op = "callback"
            /\ resp'.state # (IF Has(session, "oauth_state") THEN session.oauth_state ELSE None))
        => (resp'.status = 400 /\ calls' = <<>> /\ session' = session)]_vars

\* a nonce is stored and a /callback carrying another value was rejected
C1_Witness ==
    /\ resp.op = "callback" /\ resp.status = 400
    /\ Has(session, "oauth_state")
    /\ resp.state \in Nonces /\ resp.state # session.oauth_state

\* C2: with access_token, refresh_token and expires_at in the session, a
\* request that runs ensure_valid_token makes no refresh call and keeps the
\* session when now < expires_at; when now >= expires_at it makes exactly
\* one refresh call, writes the three token fields from the answer and goes
\* on with the new access token.
C2_RefreshAtOrAfterExpiry ==
    [][(now' = now /\ resp'.op = "stats_summary"
            /\ Has(session, "access_token") /\ Has(session, "refresh_token")
            /\ Has(session, "expires_at"))
        => IF now < session.expires_at
           THEN /\ \A i \in 1..Len(calls') : ~IsRefreshCall(calls'[i])
                /\ session' = session
                /\ \A i \in 1..Len(calls') :
                      IsApiCall(calls'[i]) => calls'[i].token = session.access_token
           ELSE /\ Cardinality({i \in 1..Len(calls') : IsRefreshCall(calls'[i])}) = 1
                /\ session'.expires_at = now + TokenLifetime
                /\ \A i \in 1..Len(calls') :
                      IsApiCall(calls'[i]) => calls'[i].token = session'.access_token]_vars

\* C3: once a /callback has passed the state check, no nonce is left in the
\* session.
C3_NonceConsumed ==
    (resp.op = "callback" /\ resp.kind # "InvalidState") => ~Has(session, "oauth_state")

\* C4: no upstream API call carries an access token whose stored expires_at
\* is earlier than the time of the call while the session holds a refresh
\* token.
C4_NoCallWithExpiredToken ==
    \A i \in 1..Len(calls) :
        (IsApiCall(calls[i]) /\ calls[i].holds_refresh)
            => ~(calls[i].stored_expires_at < calls[i].at)

\* C5: a summary request whose refresh call was answered without a token (the
\* refresh is then its only upstream call) ends with status 401.
C5_RefreshFailureIs401 ==
    (resp.op = "stats_summary" /\ Len(calls) = 1 /\ IsRefreshCall(calls[1]))
        => resp.status = 401

(***************************************************************************)
(* Properties of the athlete_stats table (SpecStore, SpecRace)             *)
(***************************************************************************)
\* the profile GET /athlete answered in the last request
AthleteAnswered(cs) ==
    LET i == CHOOSE i \in 1..Len(cs) : cs[i].ep = "athlete"
    IN  cs[i].answer.data

ReachedStore(cs) ==
    \E i \in 1..Len(cs) :
        cs[i].ep = "athlete" /\ cs[i].answer.status = 200 /\ Has(cs[i].answer.data, "id")

ComputedStep == now' = now /\ resp'.op = "stats_summary" /\ resp'.kind = "computed"

\* C6: a summary that computes statistics for athlete a leaves the rows of
\* the other athletes alone and leaves exactly the row of a holding the
\* profile just fetched, the statistics just computed and the current time;
\* no other step changes the table.  Every row is stored under its own id.
C6_UpsertLatest ==
    [][IF ComputedStep
       THEN LET a == AthleteAnswered(calls')
            IN  /\ DOMAIN store' = DOMAIN store \cup {a.id}
                /\ \A k \in DOMAIN store : k # a.id => store'[k] = store[k]
                /\ store'[a.id] = [athlete_id |-> a.id,
                                   firstname |-> a.firstname,
                                   lastname |-> a.lastname,
                                   profile |-> a.profile,
                                   total_kudos |-> resp'.body.total_kudos,
                                   total_activities |-> resp'.body.total_activities,
                                   average_kudos |-> resp'.body.average_kudos,
                                   last_updated |-> now]
       ELSE store' = store]_vars

\* the rows of two athletes are stored, the one just written at a later time
\* and from another edition of the profile than the other
C6_Witness ==
    /\ resp.op = "stats_summary" /\ resp.kind = "computed"
    /\ Cardinality(DOMAIN store) = 2
    /\ \E a, b \in DOMAIN store :
          /\ a = AthleteAnswered(calls).id /\ b # a
          /\ store[a].last_updated = now /\ store[b].last_updated < now
          /\ store[a].firstname # store[b].firstname

\* C7: a summary request that goes as far as upsert_athlete ends without an
\* error, whatever other request runs at the same time.
C7_ConcurrentUpsertsComplete ==
    \A p \in Procs :
        (req[p].pc = "done" /\ Has(req[p], "row")) => req[p].result.status = 200

\* C8: every stored row has average_kudos equal to total_kudos /
\* total_activities rounded to one decimal (0 when total_activities is 0):
\* in tenths, the integer nearest to 10 * total_kudos / total_activities,
\* the even one of the two when it lies halfway.
C8_AverageAgrees ==
    \A k \in DOMAIN store :
        LET r == store[k]
            d == 10 * r.total_kudos - r.average_kudos * r.total_activities
        IN  IF r.total_activities = 0
            THEN r.average_kudos = 0
            ELSE /\ 2 * d <= r.total_activities
                 /\ -2 * d <= r.total_activities
                 /\ (2 * d = r.total_activities \/ -2 * d = r.total_activities)
                        => r.average_kudos % 2 = 0

\* a stored row whose average is no whole number
C8_Witness ==
    \E k \in DOMAIN store :
        /\ store[k].total_activities > 1
        /\ store[k].average_kudos % 10 # 0

\* C9: a summary that was computed is kept in the session as cached_stats,
\* with cached_at the time of the computation.
C9_ComputedSummaryCached ==
    (resp.op = "stats_summary" /\ resp.kind = "computed")
        => /\ Has(session, "cached_stats") /\ Has(session, "cached_at")
           /\ session.cached_stats = resp.body
           /\ session.cached_at <= now

\* C10: a summary request that has fetched the profile of athlete a answers
\* from the stored row, without asking for the activities, if and only if a
\* row of a exists and now - last_updated < 6 hours.
C10_FreshRecordServed ==
    [][(now' = now /\ resp'.op = "stats_summary" /\ ReachedStore(calls'))
        => LET a == AthleteAnswered(calls').id
               hit == a \in DOMAIN store /\ now - store[a].last_updated < 6 * 60
           IN  IF hit
               THEN /\ resp'.kind = "cached"
                    /\ resp'.body = [total_activities |-> store[a].total_activities,
                                     total_kudos |-> store[a].total_kudos,
                                     average_kudos |-> store[a].average_kudos,
                                     top_activity_id |-> NoneId]
                    /\ \A i \in 1..Len(calls') : calls'[i].ep # "activities"
                    /\ store' = store
               ELSE /\ resp'.kind # "cached"
                    /\ \E i \in 1..Len(calls') : calls'[i].ep = "activities"]_vars

\* a row exactly 6 hours old was not served: the request asked for the
\* activities and was rate limited
C10_Witness ==
    /\ resp.op = "stats_summary" /\ resp.kind = "HTTPException"
    /\ Has(resp, "detail") /\ resp.detail = "RateLimited"
    /\ LET a == AthleteAnswered(calls).id
       IN  a \in DOMAIN store /\ now - store[a].last_updated = 6 * 60

(***************************************************************************)
(* Properties of get_activities (SpecPages)                                *)
(***************************************************************************)
EmptyPage(p) == Has(p, "list") /\ p.list = <<>>

\* a JSON object instead of a list of activities
ErrorPage(p) == Has(p, "dict")

\* the first page that is rate limited, empty or an error payload
FirstEnd(up) ==
    CHOOSE k \in 1..(Len(up) + 1) :
        /\ PageOf(up, k).status = 429 \/ EmptyPage(PageOf(up, k)) \/ ErrorPage(PageOf(up, k))
        /\ \A j \in 1..(k - 1) :
              ~(PageOf(up, j).status = 429 \/ EmptyPage(PageOf(up, j)) \/ ErrorPage(PageOf(up, j)))

RECURSIVE ConcatPages(_, _)
ConcatPages(up, n) == IF n = 0 THEN <<>> ELSE ConcatPages(up, n - 1) \o up[n].list

\* C11: get_activities asks for the pages 1, 2, ... , k in this order, k the
\* first page that is rate limited, empty or an error payload; a rate
\* limited page k ends the call with status 503 and no list, otherwise the
\* call returns the activities of the pages 1..k-1 in upstream order.
C11_PagesConcatenated ==
    resp.op = "get_activities"
        => LET k == FirstEnd(resp.up)
           IN  /\ Len(calls) = k
               /\ \A i \in 1..Len(calls) : calls[i].page = i
               /\ IF PageOf(resp.up, k).status = 429
                  THEN resp.status = 503 /\ ~Has(resp, "activities")
                  ELSE resp.status = 200 /\ resp.activities = ConcatPages(resp.up, k - 1)

(***************************************************************************)
(* Properties of /api/stats/summary against a failing upstream (SpecFetch) *)
(***************************************************************************)
\* an answer the program itself takes for an error: a profile without id,
\* an activities page that is a JSON object with a message
ErrorAnswer(c) ==
    \/ c.ep = "athlete" /\ c.answer.status = 200 /\ ~Has(c.answer.data, "id")
    \/ c.ep = "activities" /\ Has(c.answer, "dict") /\ Has(c.answer.dict, "message")

\* C12: a summary request (the deployment is no preview) that got an error
\* payload from the upstream, for the profile or for any activities page,
\* ends with an HTTP error and leaves the table as it was.
C12_NoSummaryFromFailedFetch ==
    [][(now' = now /\ resp'.op = "stats_summary"
            /\ \E i \in 1..Len(calls') : IsApiCall(calls'[i]) /\ ErrorAnswer(calls'[i]))
        => (resp'.kind = "HTTPException" /\ store' = store)]_vars

\* the request asked for the activities
AskedActivities(cs) == \E i \in 1..Len(cs) : cs[i].ep = "activities"

\* no page was rate limited and no page held an item
NoItems(cs) ==
    \A i \in 1..Len(cs) :
        cs[i].ep = "activities"
            => /\ cs[i].answer.status # 429
               /\ \/ EmptyPage(cs[i].answer)
                  \/ Has(cs[i].answer, "dict") /\ Has(cs[i].answer.dict, "message")

\* C13: a summary request whose fetch of the activities ended without a
\* rate limit and without any activity is answered 503 "No activities",
\* not 401 and not with a summary, and leaves the table as it was.
C13_NoActivitiesIs503 ==
    [][(now' = now /\ resp'.op = "stats_summary" /\ AskedActivities(calls') /\ NoItems(calls'))
        => /\ resp'.kind = "HTTPException" /\ resp'.status = 503
           /\ resp'.detail = "NoActivities"
           /\ store' = store]_vars

\* the stale row of the athlete was left alone by a request that found no
\* activities
C13_Witness ==
    /\ resp.op = "stats_summary" /\ resp.status = 503
    /\ AskedActivities(calls) /\ NoItems(calls)
    /\ \E a \in DOMAIN store :
          a = AthleteAnswered(calls).id /\ now - store[a].last_updated >= 6 * 60

(***************************************************************************)
(* Properties of a preview deployment (SpecPreview)                        *)
(***************************************************************************)
\* the endpoints that answer from the upstream or from the table
DataEndpoints ==
    {"api_athlete", "stats_summary", "top_activity", "leaderboard", "leaderboard_rank"}

\* C14: in a preview deployment a request to /api/athlete,
\* /api/stats/summary, /api/stats/top-activity, /api/leaderboard or
\* /api/leaderboard/rank makes no upstream call and runs no database query.
C14_PreviewTouchesNothing ==
    (IS_PREVIEW /\ resp.op \in DataEndpoints)
        => /\ calls = <<>>
           /\ Has(resp, "queried") => ~resp.queried

\* the activities the upstream listed to the request, in the order of the
\* pages
RECURSIVE Fetched(_)
Fetched(cs) ==
    IF cs = <<>> THEN <<>>
    ELSE IF Head(cs).ep = "activities" /\ Has(Head(cs).answer, "list")
    THEN Head(cs).answer.list \o Fetched(Tail(cs))
    ELSE Fetched(Tail(cs))

\* C15: the top_activity_id of a computed summary is the id of an activity
\* of the fetched list whose kudos_count (0 when it has none) is at least
\* that of every activity of the list and larger than that of every
\* activity before it.
C15_TopIsFirstMaximum ==
    (resp.op = "stats_summary" /\ resp.kind = "computed")
        => LET acts == Fetched(calls)
           IN  \E i \in 1..Len(acts) :
                  /\ acts[i].id = resp.body.top_activity_id
                  /\ \A j \in 1..Len(acts) : Kudos(acts[j]) <= Kudos(acts[i])
                  /\ \A j \in 1..(i - 1) : Kudos(acts[j]) < Kudos(acts[i])

\* a summary over two activities with the same positive kudos_count
C15_Witness ==
    /\ resp.op = "stats_summary" /\ resp.kind = "computed"
    /\ LET acts == Fetched(calls)
       IN  /\ Len(acts) = 2
           /\ Kudos(acts[1]) = Kudos(acts[2]) /\ Kudos(acts[1]) > 0
           /\ resp.body.top_activity_id = acts[1].id

(***************************************************************************)
(* Properties of the leaderboard (SpecBoard)                               *)
(***************************************************************************)
\* the column a sort value stands for
ChosenColumn(sort) ==
    IF sort \in {"total_kudos", "average_kudos", "total_activities"} THEN sort ELSE "total_kudos"

Descending(rows, col) ==
    \A i, j \in 1..Len(rows) : i < j => rows[i][col] >= rows[j][col]

MoreKudos(a) == {k \in DOMAIN store : store[k].total_kudos > store[a].total_kudos}

AtLeastKudos(a) == {k \in DOMAIN store : store[k].total_kudos >= store[a].total_kudos}

\* C17: in a session that holds an access token, /api/leaderboard/rank
\* answers a rank: for an athlete with a row the position of the row in the
\* table ordered by total_kudos, largest first, counted from 1 (rows of
\* equal kudos in any order); for an athlete without a row, null.
C17_RankAnswered ==
    (resp.op = "leaderboard_rank" /\ Has(session, "access_token"))
        => /\ resp.kind = "rank"
           /\ LET a == session.access_token[1]
              IN  IF a \in DOMAIN store
                  THEN /\ resp.rank >= Cardinality(MoreKudos(a)) + 1
                       /\ resp.rank <= Cardinality(AtLeastKudos(a))
                  ELSE resp.rank = NoRank

(***************************************************************************)
(* Properties of the session across logins (Spec, SpecBoard)               *)
(***************************************************************************)
\* C18: a /callback that arrives in a session holding no oauth_state makes
\* no call of the token endpoint and stores no tokens, whatever state and
\* code it carries.
C18_NoExchangeWithoutNonce ==
    [][(now' = now /\ resp'.op = "callback" /\ ~Has(session, "oauth_state"))
        => /\ \A i \in 1..Len(calls') : calls'[i].ep # "token"
           /\ session' = session]_vars

\* C19: the profile cached in the session is the profile of the athlete the
\* session's access token belongs to, and /api/athlete and
\* /api/leaderboard/rank answer for that athlete.
C19_CachedAthleteIsTokenAthlete ==
    /\ (Has(session, "athlete") /\ Has(session, "access_token"))
          => session.athlete.id = session.access_token[1]
    /\ (resp.op = "api_athlete" /\ resp.kind = "athlete")
          => resp.body.id = session.access_token[1]
    /\ (resp.op = "leaderboard_rank" /\ resp.kind = "rank")
          => resp.athlete_id = session.access_token[1]

(***************************************************************************)
(* Frame of the athlete_stats table (SpecStore)                            *)
(***************************************************************************)
\* C20: a step that is no freshly computed summary leaves the table as it
\* is, last_updated included; a computed summary gives the rows it changes
\* the current time; every row counts at least one activity.  A row is
\* therefore as old as the last computation for its athlete, however often
\* it was read.
C20_StoreFrame ==
    [][/\ IF ComputedStep
          THEN \A k \in DOMAIN store' :
                  (k \notin DOMAIN store \/ store'[k] # store[k]) => store'[k].last_updated = now
          ELSE store' = store
       /\ \A k \in DOMAIN store' : store'[k].total_activities >= 1]_vars

\* a row served from the table some time after it was written, and still
\* as it was written
C20_Witness ==
    /\ resp.op = "stats_summary" /\ resp.kind = "cached"
    /\ LET a == AthleteAnswered(calls).id
       IN  /\ a \in DOMAIN store
           /\ store[a].last_updated < now
           /\ store[a].total_activities = resp.body.total_activities

====
